---- MODULE Spec2Model ----
(***************************************************************************)
(* The portfolio ledger of InvestoMommy: app/services/portfolio_service.py *)
(* (PortfolioService), the portfolio routes of app/api/routes.py that wrap *)
(* it, the request schema of app/models/schemas.py and the two calls of    *)
(* app/services/fmp_service.py the ledger makes to the market-data         *)
(* provider.                                                               *)
(*                                                                         *)
(* A request is a coroutine: it runs without interruption up to its next   *)
(* provider call (an await) or database round trip, where other requests   *)
(* may run.  Each such segment is one action.  Money is a float in the     *)
(* code; here it is an exact integer and a percentage is an exact          *)
(* fraction, so the arithmetic is that of the code without its rounding.   *)
(***************************************************************************)
EXTENDS Integers, Sequences, FiniteSets, TLC

VARIABLES
    holdings,   \* the portfolio_holdings table: a set of rows
    nextId,     \* the table's next autoincrement id
    clock,      \* the database clock that stamps purchased_at
    req         \* per request slot: the coroutine's position and locals

vars == <<holdings, nextId, clock, req>>

(***************************************************************************)
(* Bounds of the model.                                                    *)
(***************************************************************************)
MaxHoldings == 2
MaxConcurrentHoldings == 1

Reqs == {1, 2}
ApiReqs == {1}
Users == {1, 2}
HoldingIds == 1..MaxHoldings
ShareInputs == {-5, 0, 5, 10}
QuotePrices == {40, 120}

\* the bodies POSTed: two valid ones, one of a ticker the provider does not
\* know, and the invalid ones (shares or price not positive)
Order(symbol, shares, purchase_price) ==
    [symbol |-> symbol, shares |-> shares, purchase_price |-> purchase_price]

Orders ==
    {Order("aapl", 10, 100), Order("msft", 5, 50), Order("zzzz", 5, 50),
     Order("aapl", 0, 100), Order("aapl", -5, 100), Order("msft", 5, 0),
     Order("msft", 5, -50)}

(***************************************************************************)
(* HTTP status codes.                                                      *)
(***************************************************************************)
HTTP_200_OK == 200
HTTP_201_CREATED == 201
HTTP_204_NO_CONTENT == 204
HTTP_400_BAD_REQUEST == 400
HTTP_404_NOT_FOUND == 404
HTTP_422_UNPROCESSABLE == 422
HTTP_500_SERVER_ERROR == 500

(***************************************************************************)
(* Values.                                                                 *)
(***************************************************************************)
\* str.upper() on the tickers of the model
Upper(s) ==
    CASE s = "aapl" -> "AAPL"
      [] s = "msft" -> "MSFT"
      [] s = "zzzz" -> "ZZZZ"
      [] OTHER -> s

Abs(n) == IF n < 0 THEN -n ELSE n

RECURSIVE GCD(_, _)
GCD(a, b) == IF b = 0 THEN a ELSE GCD(b, a % b)

\* the number n/d (d > 0) in lowest terms
Frac(n, d) ==
    LET g == GCD(Abs(n), d)
    IN  [num |-> n \div g, den |-> d \div g]

Zero == Frac(0, 1)

\* a PortfolioHolding row; NoHolding is Python's None
NoHolding ==
    [id |-> 0, user_id |-> 0, symbol |-> "", company_name |-> "",
     shares |-> 0, purchase_price |-> 0, purchased_at |-> 0]

\* what one provider call gives: the call raises (raise_for_status, a
\* transport error), the JSON list is empty, or its first element is a dict
\* that has or lacks the key read from it
QuoteOutcomes ==
    {[kind |-> "error", price |-> 0], [kind |-> "empty", price |-> 0],
     [kind |-> "nokey", price |-> 0]}
    \cup {[kind |-> "dict", price |-> p] : p \in QuotePrices}

\* the provider's catalogue: the profile of "aapl" names the company, the
\* profile of "msft" lacks companyName, "zzzz" has no profile; any call may
\* also fail
ProfileOutcomes(symbol) ==
    {[kind |-> "error", companyName |-> ""]}
    \cup (CASE symbol = "aapl" ->
                 {[kind |-> "dict", companyName |-> "Apple Inc."]}
            [] symbol = "msft" -> {[kind |-> "nokey", companyName |-> ""]}
            [] OTHER -> {[kind |-> "empty", companyName |-> ""]})

Profiles == UNION {ProfileOutcomes(symbol) : symbol \in {"aapl", "msft", "zzzz"}}

\* no provider call answered yet
NoProfile == [kind |-> "none", companyName |-> ""]

\* FMPService.get_stock_quote / get_company_profile: data[0] if data else None.
\* The value is "some dict" (TRUE) or None (FALSE); an error never returns.
HasRecord(outcome) == outcome.kind \in {"dict", "nokey"}

NoTotals ==
    [total_invested |-> 0, current_value |-> 0, total_gain_loss |-> 0,
     total_gain_loss_percent |-> Zero]

NoResp == [kind |-> "none", status |-> 0, detail |-> "", holdings |-> <<>>,
           totals |-> NoTotals]

\* raise HTTPException(status_code, detail), or a request the framework
\* rejects with that status
Raised(status, detail) ==
    [kind |-> "raised", status |-> status, detail |-> detail,
     holdings |-> <<>>, totals |-> NoTotals]

\* an exception nothing catches: the caller gets a generic failure
Uncaught(detail) == Raised(HTTP_500_SERVER_ERROR, detail)

\* a normal return, with the response's holdings entries and totals
Returned(status, entries, totals) ==
    [kind |-> "returned", status |-> status, detail |-> "",
     holdings |-> entries, totals |-> totals]

\* a request: where it stands (pc), what it was called with, what it holds
\* in its session, what the providers answered, whether its commit has
\* changed the table (wrote), and what the caller got (resp)
Idle ==
    [pc |-> "idle", op |-> "none", via |-> "api", user |-> 0, symbol |-> "",
     shares |-> 0, purchase_price |-> 0, holding_id |-> 0,
     holding |-> NoHolding, holdings |-> <<>>, result |-> <<>>,
     profile |-> NoProfile, quotes |-> <<>>, wrote |-> FALSE,
     resp |-> NoResp]

(***************************************************************************)
(* Request validation at the API boundary.                                 *)
(***************************************************************************)
\* variant: the price constraint left out of the schema
ValidCreateSharesOnly(shares, purchase_price) == shares > 0

\* PortfolioHoldingCreate: shares = Field(gt=0), purchase_price = Field(gt=0)
ValidCreate(shares, purchase_price) == shares > 0 /\ purchase_price > 0

\* update_holding route: shares = Query(..., gt=0)
ValidSharesQuery(shares) == shares > 0

(***************************************************************************)
(* Database queries.                                                       *)
(***************************************************************************)
RECURSIVE ById(_)
\* the rows of a set as a list in id order, the storage order of the table
ById(rows) ==
    IF rows = {} THEN <<>>
    ELSE LET first == CHOOSE h \in rows : \A g \in rows : h.id <= g.id
         IN  <<first>> \o ById(rows \ {first})

\* variant: the query without its owner filter
HoldingsOfAnyone(db, user) == ById(db)

\* db.query(PortfolioHolding).filter(user_id == user.id).all()
HoldingsOf(db, user) == ById({h \in db : h.user_id = user})

\* variant: the lookup without its owner filter
FindHoldingAnyOwner(db, holding_id, user) ==
    LET found == {h \in db : h.id = holding_id}
    IN  IF found = {} THEN NoHolding ELSE CHOOSE h \in found : TRUE

\* db.query(PortfolioHolding).filter(id == holding_id,
\*                                   user_id == user.id).first()
FindHolding(db, holding_id, user) ==
    LET found == {h \in db : h.id = holding_id /\ h.user_id = user}
    IN  IF found = {} THEN NoHolding ELSE CHOOSE h \in found : TRUE

\* variant: the missing profile not checked
ProfileMissingNever(profile) == FALSE

\* add_holding: if not profile
ProfileMissing(profile) == ~HasRecord(profile)

\* variant: zero shares let through
SharesRejectedNegativeOnly(shares) == shares < 0

\* update_holding: if shares <= 0
SharesRejected(shares) == shares <= 0

\* variant: the purchase price rebased to keep the amount invested
WriteSharesRebased(holding, shares) ==
    [holding EXCEPT !.shares = shares,
                    !.purchase_price =
                        (holding.purchase_price * holding.shares) \div shares]

\* update_holding: holding.shares = shares
WriteShares(holding, shares) == [holding EXCEPT !.shares = shares]

\* variant: the loaded object written back whether or not the table still
\* has its row (a merge in place of an UPDATE by primary key)
UpdateRowsMerged(db, holding, shares) ==
    {h \in db : h.id # holding.id} \cup {WriteShares(holding, shares)}

\* the table after the flush of holding.shares = shares: the unit of work
\* emits UPDATE ... SET shares WHERE id = holding.id, and only when shares
\* differs from the value the object was loaded with
UpdateRows(db, holding, shares) ==
    {IF h.id = holding.id /\ holding.shares # shares
     THEN WriteShares(h, shares) ELSE h : h \in db}

\* company_name = profile.get("companyName", holding_data.symbol)
CompanyName(profile, symbol) ==
    IF profile.kind = "dict" THEN profile.companyName ELSE symbol

\* the id the table gives the row after the one numbered id: ids count up
\* and the id of a deleted row is not given again
NextHoldingId(id) == id + 1

\* an argument slip: shares and purchase_price change places
NewHoldingSwapped(id, now, user, symbol, company_name, shares, purchase_price) ==
    [id |-> id, user_id |-> user, symbol |-> Upper(symbol),
     company_name |-> company_name, shares |-> purchase_price,
     purchase_price |-> shares, purchased_at |-> now]

\* PortfolioHolding(user_id=..., symbol=symbol.upper(), ...) after db.add,
\* db.commit and db.refresh: the row with its id and purchased_at assigned
NewHolding(id, now, user, symbol, company_name, shares, purchase_price) ==
    [id |-> id, user_id |-> user, symbol |-> Upper(symbol),
     company_name |-> company_name, shares |-> shares,
     purchase_price |-> purchase_price, purchased_at |-> now]

(***************************************************************************)
(* Valuation.                                                              *)
(***************************************************************************)
\* quote.get("price", holding.purchase_price) if quote
\*                                            else holding.purchase_price
CurrentPrice(quote, purchase_price) ==
    IF HasRecord(quote)
    THEN (IF quote.kind = "dict" THEN quote.price ELSE purchase_price)
    ELSE purchase_price

\* (gain_loss / invested * 100) if invested > 0 else 0
GainLossPercent(gain_loss, invested) ==
    IF invested > 0 THEN Frac(gain_loss * 100, invested) ELSE Zero

HoldingResponse(holding, current_price, total_value, gain_loss, percent) ==
    [id |-> holding.id, symbol |-> holding.symbol,
     company_name |-> holding.company_name, shares |-> holding.shares,
     purchase_price |-> holding.purchase_price,
     current_price |-> current_price, total_value |-> total_value,
     gain_loss |-> gain_loss, gain_loss_percent |-> percent,
     purchased_at |-> holding.purchased_at]

\* get_holdings: the body of its loop for one holding
ListValuation(holding, quote) ==
    LET current_price == CurrentPrice(quote, holding.purchase_price)
        total_value == current_price * holding.shares
        invested == holding.purchase_price * holding.shares
        gain_loss == total_value - invested
        gain_loss_percent == GainLossPercent(gain_loss, invested)
    IN  HoldingResponse(holding, current_price, total_value, gain_loss,
                        gain_loss_percent)

\* variant: the add route valuing at the quoted price only, with no
\* purchase-price fallback
AddValuationQuotedOnly(holding, quote) ==
    LET current_price == quote.price
        total_value == current_price * holding.shares
        invested == holding.purchase_price * holding.shares
        gain_loss == total_value - invested
    IN  HoldingResponse(holding, current_price, total_value, gain_loss,
                        GainLossPercent(gain_loss, invested))

\* add_holding route: the response built after the ledger call
AddValuation(holding, quote) ==
    LET current_price == CurrentPrice(quote, holding.purchase_price)
        total_value == current_price * holding.shares
        invested == holding.purchase_price * holding.shares
        gain_loss == total_value - invested
    IN  HoldingResponse(holding, current_price, total_value, gain_loss,
                        GainLossPercent(gain_loss, invested))

\* update_holding route: the response built after the ledger call
UpdateValuation(holding, quote) ==
    LET current_price == CurrentPrice(quote, holding.purchase_price)
        total_value == current_price * holding.shares
        invested == holding.purchase_price * holding.shares
        gain_loss == total_value - invested
    IN  HoldingResponse(holding, current_price, total_value, gain_loss,
                        GainLossPercent(gain_loss, invested))

RECURSIVE SumInvested(_)
\* sum(h.purchase_price * h.shares for h in holdings)
SumInvested(entries) ==
    IF entries = <<>> THEN 0
    ELSE Head(entries).purchase_price * Head(entries).shares
         + SumInvested(Tail(entries))

\* variant: the holdings summed at cost
SumTotalValueAtCost(entries) == SumInvested(entries)

RECURSIVE SumTotalValue(_)
\* sum(h.total_value for h in holdings)
SumTotalValue(entries) ==
    IF entries = <<>> THEN 0
    ELSE Head(entries).total_value + SumTotalValue(Tail(entries))

\* variant: the gain taken as invested minus value
SummaryTotalsSignSlip(entries) ==
    LET total_invested == SumInvested(entries)
        current_value == SumTotalValue(entries)
        total_gain_loss == total_invested - current_value
    IN  [total_invested |-> total_invested,
         current_value |-> current_value,
         total_gain_loss |-> total_gain_loss,
         total_gain_loss_percent |->
             GainLossPercent(total_gain_loss, total_invested)]

\* get_portfolio_summary: the totals over the entries get_holdings returned
SummaryTotals(entries) ==
    LET total_invested == SumInvested(entries)
        current_value == SumTotalValue(entries)
        total_gain_loss == current_value - total_invested
    IN  [total_invested |-> total_invested,
         current_value |-> current_value,
         total_gain_loss |-> total_gain_loss,
         total_gain_loss_percent |->
             GainLossPercent(total_gain_loss, total_invested)]

(***************************************************************************)
(* Requests.                                                               *)
(***************************************************************************)
Free(r) == req[r].pc \in {"idle", "done"}

\* the status the caller sees: the route's HTTP status, or none (0) when the
\* ledger method is called directly and simply returns
StatusOf(via, status) == IF via = "api" THEN status ELSE 0

Finish(r, resp) == [req[r] EXCEPT !.pc = "done", !.resp = resp]

\* what get_holdings (op "list") or get_portfolio_summary (op "summary")
\* returns for the entries computed
ListResponse(via, op, entries) ==
    Returned(StatusOf(via, HTTP_200_OK), entries,
             IF op = "summary" THEN SummaryTotals(entries) ELSE NoTotals)

(* POST /dashboard/portfolio/holdings (via "api": the body is validated     *)
(* first) or PortfolioService.add_holding called directly (via "ledger"),  *)
(* up to the await of get_company_profile.                                 *)
AddHoldingCall(r, via, user, symbol, shares, purchase_price) ==
    /\ Free(r)
    /\ LET call == [Idle EXCEPT !.op = "add", !.via = via, !.user = user,
                                !.symbol = symbol, !.shares = shares,
                                !.purchase_price = purchase_price]
       IN  req' = [req EXCEPT ![r] =
                IF via = "api" /\ ~ValidCreate(shares, purchase_price)
                THEN [call EXCEPT !.pc = "done",
                          !.resp = Raised(HTTP_422_UNPROCESSABLE,
                                          "validation error")]
                ELSE [call EXCEPT !.pc = "add_profile"]]
    /\ UNCHANGED <<holdings, nextId, clock>>

(* add_holding from the provider's answer to its return: the 404, or the    *)
(* row added, committed and refreshed.  The route then awaits the quote.   *)
(* The table takes rows up to id cap.                                      *)
AddHoldingProfile(r, profile, cap) ==
    /\ req[r].pc = "add_profile"
    /\ profile \in ProfileOutcomes(req[r].symbol)
    /\ IF profile.kind = "error"
        THEN /\ req' = [req EXCEPT ![r] =
                    [Finish(r, Uncaught("HTTPStatusError"))
                        EXCEPT !.profile = profile]]
             /\ UNCHANGED <<holdings, nextId, clock>>
        ELSE IF ProfileMissing(profile)
        THEN /\ req' = [req EXCEPT ![r] =
                    [Finish(r, Raised(HTTP_404_NOT_FOUND,
                                      "Stock symbol not found"))
                        EXCEPT !.profile = profile]]
             /\ UNCHANGED <<holdings, nextId, clock>>
        ELSE /\ nextId <= cap
             /\ LET holding ==
                        NewHolding(nextId, clock, req[r].user, req[r].symbol,
                                   CompanyName(profile, req[r].symbol),
                                   req[r].shares, req[r].purchase_price)
                IN  /\ holdings' = holdings \cup {holding}
                    /\ req' = [req EXCEPT ![r] =
                           IF req[r].via = "api"
                           THEN [req[r] EXCEPT !.pc = "add_quote",
                                               !.profile = profile,
                                               !.holding = holding,
                                               !.wrote = TRUE]
                           ELSE [Finish(r, Returned(0, <<>>, NoTotals))
                                    EXCEPT !.profile = profile,
                                           !.holding = holding,
                                           !.wrote = TRUE]]
             /\ nextId' = NextHoldingId(nextId)
             /\ clock' = clock + 1

(* add_holding route from the quote's answer to the response.              *)
AddHoldingQuote(r, quote) ==
    /\ req[r].pc = "add_quote"
    /\ req' = [req EXCEPT ![r] =
            [Finish(r, IF quote.kind = "error"
                       THEN Uncaught("HTTPStatusError")
                       ELSE Returned(HTTP_201_CREATED,
                                     <<AddValuation(req[r].holding, quote)>>,
                                     NoTotals))
                EXCEPT !.quotes = <<quote>>]]
    /\ UNCHANGED <<holdings, nextId, clock>>

(* get_holdings (op "list") or get_portfolio_summary (op "summary", also   *)
(* GET /dashboard/portfolio): the query, up to the first await.  With no   *)
(* holding the loop does not run and the method returns at once.           *)
GetHoldingsCall(r, via, op, user) ==
    /\ Free(r)
    /\ LET rows == HoldingsOf(holdings, user)
           call == [Idle EXCEPT !.op = op, !.via = via, !.user = user,
                                !.holdings = rows]
       IN  req' = [req EXCEPT ![r] =
                IF rows = <<>>
                THEN [call EXCEPT !.pc = "done",
                                  !.resp = ListResponse(via, op, <<>>)]
                ELSE [call EXCEPT !.pc = "list_quote"]]
    /\ UNCHANGED <<holdings, nextId, clock>>

(* One turn of the loop of get_holdings, from the quote's answer to the    *)
(* next await, or to the return after the last holding.                    *)
GetHoldingsQuote(r, quote) ==
    /\ req[r].pc = "list_quote"
    /\ LET holding == req[r].holdings[Len(req[r].result) + 1]
            result == Append(req[r].result, ListValuation(holding, quote))
            quotes == Append(req[r].quotes, quote)
        IN  req' = [req EXCEPT ![r] =
                IF quote.kind = "error"
                THEN [Finish(r, Uncaught("HTTPStatusError"))
                         EXCEPT !.quotes = quotes]
                ELSE IF Len(result) = Len(req[r].holdings)
                THEN [Finish(r, ListResponse(req[r].via, req[r].op, result))
                         EXCEPT !.result = result, !.quotes = quotes]
                ELSE [req[r] EXCEPT !.result = result, !.quotes = quotes]]
    /\ UNCHANGED <<holdings, nextId, clock>>

(* remove_holding: the lookup by (id, owner) and the 404.                  *)
RemoveHoldingCall(r, via, user, holding_id) ==
    /\ Free(r)
    /\ LET holding == FindHolding(holdings, holding_id, user)
           call == [Idle EXCEPT !.op = "remove", !.via = via, !.user = user,
                                !.holding_id = holding_id]
       IN  req' = [req EXCEPT ![r] =
                IF holding = NoHolding
                THEN [call EXCEPT !.pc = "done",
                          !.resp = Raised(HTTP_404_NOT_FOUND, "Holding not found")]
                ELSE [call EXCEPT !.pc = "remove_commit",
                                  !.holding = holding]]
    /\ UNCHANGED <<holdings, nextId, clock>>

(* remove_holding: db.delete(holding); db.commit().  The DELETE names the  *)
(* row by its primary key.                                                 *)
RemoveHoldingCommit(r) ==
    /\ req[r].pc = "remove_commit"
    /\ holdings' = {h \in holdings : h.id # req[r].holding.id}
    /\ req' = [req EXCEPT ![r] =
           [Finish(r, Returned(StatusOf(req[r].via, HTTP_204_NO_CONTENT),
                               <<>>, NoTotals))
               EXCEPT !.wrote = (holdings' # holdings)]]
    /\ UNCHANGED <<nextId, clock>>

(* PATCH /dashboard/portfolio/holdings/{id} (via "api": the query          *)
(* parameter is validated first) or update_holding called directly: the    *)
(* lookup by (id, owner), the 404 and the 400.                             *)
UpdateHoldingCall(r, via, user, holding_id, shares) ==
    /\ Free(r)
    /\ LET holding == FindHolding(holdings, holding_id, user)
           call == [Idle EXCEPT !.op = "update", !.via = via, !.user = user,
                                !.holding_id = holding_id, !.shares = shares]
       IN  req' = [req EXCEPT ![r] =
                IF via = "api" /\ ~ValidSharesQuery(shares)
                THEN [call EXCEPT !.pc = "done",
                          !.resp = Raised(HTTP_422_UNPROCESSABLE,
                                          "validation error")]
                ELSE IF holding = NoHolding
                THEN [call EXCEPT !.pc = "done",
                          !.resp = Raised(HTTP_404_NOT_FOUND, "Holding not found")]
                ELSE IF SharesRejected(shares)
                THEN [call EXCEPT !.pc = "done",
                          !.resp = Raised(HTTP_400_BAD_REQUEST,
                                          "Shares must be greater than 0")]
                ELSE [call EXCEPT !.pc = "update_commit",
                                  !.holding = holding]]
    /\ UNCHANGED <<holdings, nextId, clock>>

(* update_holding: holding.shares = shares; db.commit(); db.refresh().     *)
(* The unit of work writes the one column whose value differs from the one *)
(* loaded, in an UPDATE that names the row by its primary key; an UPDATE   *)
(* or a refresh that finds no row raises.                                  *)
UpdateHoldingCommit(r) ==
    /\ req[r].pc = "update_commit"
    /\ LET id == req[r].holding.id
           table == UpdateRows(holdings, req[r].holding, req[r].shares)
           stored == {h \in table : h.id = id}
       IN  IF stored = {}
           THEN /\ req' = [req EXCEPT ![r] = Finish(r, Uncaught("StaleDataError"))]
                /\ UNCHANGED holdings
           ELSE /\ holdings' = table
                /\ LET refreshed == CHOOSE h \in stored : TRUE
                   IN  req' = [req EXCEPT ![r] =
                           IF req[r].via = "api"
                           THEN [req[r] EXCEPT !.pc = "update_quote",
                                               !.holding = refreshed,
                                               !.wrote = (table # holdings)]
                           ELSE [Finish(r, Returned(0, <<>>, NoTotals))
                                    EXCEPT !.holding = refreshed,
                                           !.wrote = (table # holdings)]]
    /\ UNCHANGED <<nextId, clock>>

(* update_holding route from the quote's answer to the response.           *)
UpdateHoldingQuote(r, quote) ==
    /\ req[r].pc = "update_quote"
    /\ req' = [req EXCEPT ![r] =
            [Finish(r, IF quote.kind = "error"
                       THEN Uncaught("HTTPStatusError")
                       ELSE Returned(HTTP_200_OK,
                                     <<UpdateValuation(req[r].holding, quote)>>,
                                     NoTotals))
                EXCEPT !.quotes = <<quote>>]]
    /\ UNCHANGED <<holdings, nextId, clock>>

(***************************************************************************)
(* The API: the portfolio routes, called by authenticated users.           *)
(***************************************************************************)
Init ==
    /\ holdings = {}
    /\ nextId = 1
    /\ clock = 1
    /\ req = [r \in Reqs |-> Idle]

PostHolding(r) ==
    \E user \in Users, order \in Orders :
        AddHoldingCall(r, "api", user, order.symbol, order.shares,
                       order.purchase_price)

GetPortfolio(r) ==
    \E user \in Users : GetHoldingsCall(r, "api", "summary", user)

DeleteHolding(r) ==
    \E user \in Users, holding_id \in HoldingIds :
        RemoveHoldingCall(r, "api", user, holding_id)

PatchHolding(r) ==
    \E user \in Users, holding_id \in HoldingIds, shares \in ShareInputs :
        UpdateHoldingCall(r, "api", user, holding_id, shares)

Next ==
    \E r \in ApiReqs :
        \/ PostHolding(r)
        \/ \E profile \in Profiles :
               AddHoldingProfile(r, profile, MaxHoldings)
        \/ \E quote \in QuoteOutcomes : AddHoldingQuote(r, quote)
        \/ GetPortfolio(r)
        \/ \E quote \in QuoteOutcomes : GetHoldingsQuote(r, quote)
        \/ DeleteHolding(r)
        \/ RemoveHoldingCommit(r)
        \/ PatchHolding(r)
        \/ UpdateHoldingCommit(r)
        \/ \E quote \in QuoteOutcomes : UpdateHoldingQuote(r, quote)

Spec == Init /\ [][Next]_vars

(***************************************************************************)
(* The ledger: the methods of PortfolioService called directly, as any     *)
(* caller inside the process may, without the validation of the routes.    *)
(***************************************************************************)
LedgerOrders ==
    {Order("aapl", 10, 100), Order("zzzz", 5, 50), Order("aapl", -5, 100),
     Order("msft", 5, 0)}

LedgerAddHolding(r) ==
    \E user \in Users, order \in LedgerOrders :
        AddHoldingCall(r, "ledger", user, order.symbol, order.shares,
                       order.purchase_price)

LedgerGetHoldings(r) ==
    \E user \in Users : GetHoldingsCall(r, "ledger", "list", user)

LedgerGetSummary(r) ==
    \E user \in Users : GetHoldingsCall(r, "ledger", "summary", user)

LedgerRemoveHolding(r) ==
    \E user \in Users, holding_id \in HoldingIds :
        RemoveHoldingCall(r, "ledger", user, holding_id)

LedgerUpdateHolding(r) ==
    \E user \in Users, holding_id \in HoldingIds, shares \in ShareInputs :
        UpdateHoldingCall(r, "ledger", user, holding_id, shares)

NextLedger ==
    \E r \in ApiReqs :
        \/ LedgerAddHolding(r)
        \/ \E profile \in Profiles :
               AddHoldingProfile(r, profile, MaxHoldings)
        \/ LedgerGetHoldings(r)
        \/ LedgerGetSummary(r)
        \/ \E quote \in QuoteOutcomes : GetHoldingsQuote(r, quote)
        \/ LedgerRemoveHolding(r)
        \/ RemoveHoldingCommit(r)
        \/ LedgerUpdateHolding(r)
        \/ UpdateHoldingCommit(r)

SpecLedger == Init /\ [][NextLedger]_vars

(***************************************************************************)
(* The API serving two requests at once (several workers, or coroutines    *)
(* interleaved at their awaits), on fewer inputs.                          *)
(***************************************************************************)
ConcurrentOrders == {Order("aapl", 10, 100)}
ConcurrentShares == {0, 5, 10}
ConcurrentQuotes ==
    {[kind |-> "error", price |-> 0], [kind |-> "dict", price |-> 120]}

NextConcurrent ==
    \E r \in Reqs :
        \/ \E user \in Users, order \in ConcurrentOrders :
               AddHoldingCall(r, "api", user, order.symbol, order.shares,
                              order.purchase_price)
        \/ \E profile \in Profiles :
               AddHoldingProfile(r, profile, MaxConcurrentHoldings)
        \/ \E quote \in ConcurrentQuotes : AddHoldingQuote(r, quote)
        \/ GetPortfolio(r)
        \/ \E quote \in ConcurrentQuotes : GetHoldingsQuote(r, quote)
        \/ \E user \in Users, holding_id \in 1..MaxConcurrentHoldings :
               RemoveHoldingCall(r, "api", user, holding_id)
        \/ RemoveHoldingCommit(r)
        \/ \E user \in Users, holding_id \in 1..MaxConcurrentHoldings,
              shares \in ConcurrentShares :
               UpdateHoldingCall(r, "api", user, holding_id, shares)
        \/ UpdateHoldingCommit(r)
        \/ \E quote \in ConcurrentQuotes : UpdateHoldingQuote(r, quote)

SpecConcurrent == Init /\ [][NextConcurrent]_vars

(***************************************************************************)
(* The ledger methods running in two sessions at once (two workers on one  *)
(* database): each may run between the lookup and the commit of the other. *)
(***************************************************************************)
NextConcurrentLedger ==
    \E r \in Reqs :
        \/ \E user \in Users, order \in ConcurrentOrders :
               AddHoldingCall(r, "ledger", user, order.symbol, order.shares,
                              order.purchase_price)
        \/ \E profile \in Profiles :
               AddHoldingProfile(r, profile, MaxConcurrentHoldings)
        \/ \E user \in Users : GetHoldingsCall(r, "ledger", "summary", user)
        \/ \E quote \in ConcurrentQuotes : GetHoldingsQuote(r, quote)
        \/ \E user \in Users, holding_id \in 1..MaxConcurrentHoldings :
               RemoveHoldingCall(r, "ledger", user, holding_id)
        \/ RemoveHoldingCommit(r)
        \/ \E user \in Users, holding_id \in 1..MaxConcurrentHoldings,
              shares \in ConcurrentShares :
               UpdateHoldingCall(r, "ledger", user, holding_id, shares)
        \/ UpdateHoldingCommit(r)

SpecConcurrentLedger == Init /\ [][NextConcurrentLedger]_vars

(***************************************************************************)
(* The valuation alone: the three places that compute it, applied to the   *)
(* same holding and the same answer of the quote provider.  The holdings   *)
(* are the rows add_holding can store, those with shares or price <= 0     *)
(* included; the answers are those get_stock_quote returns.                *)
(***************************************************************************)
ValuationPrices == {0, 50, 100}

ValuationHoldings ==
    {NewHolding(1, 1, 1, "aapl", "Apple Inc.", shares, purchase_price) :
        shares \in ShareInputs, purchase_price \in ValuationPrices}

ValuationQuotes == {quote \in QuoteOutcomes : quote.kind # "error"}

\* result: the entry of the add route, of the update route, of get_holdings
Valuate(r, holding, quote) ==
    /\ Free(r)
    /\ req' = [req EXCEPT ![r] =
           [Idle EXCEPT !.pc = "done", !.op = "valuation",
                        !.holding = holding, !.quotes = <<quote>>,
                        !.result = <<AddValuation(holding, quote),
                                     UpdateValuation(holding, quote),
                                     ListValuation(holding, quote)>>]]
    /\ UNCHANGED <<holdings, nextId, clock>>

NextValuation ==
    \E r \in Reqs, holding \in ValuationHoldings, quote \in ValuationQuotes :
        Valuate(r, holding, quote)

SpecValuation == Init /\ [][NextValuation]_vars

(***************************************************************************)
(* Properties.                                                             *)
(***************************************************************************)
\* the statuses that tell the caller an argument is invalid
InvalidArgument == {HTTP_400_BAD_REQUEST, HTTP_422_UNPROCESSABLE}

\* this step is request r entering operation op
Calls(r, op) == Free(r) /\ req'[r] # req[r] /\ req'[r].op = op

NotFound(resp) == resp.kind = "raised" /\ resp.status = HTTP_404_NOT_FOUND

\* the provider gave no usable price: the call failed, or it answered
\* without a quote or without a price
QuoteFailed(quote) == quote.kind # "dict"

FinishedListing(r) ==
    req[r].pc = "done" /\ req[r].op \in {"list", "summary"}

\* C1: a listing (get_holdings, alone or inside the summary) always returns
\* one entry per holding of the user, whatever the provider did: an entry
\* whose quote failed has current_price = purchase_price and gain_loss = 0,
\* every other entry is valued from the price quoted for it.
C1_ListDegradesPerItem ==
    \A r \in Reqs :
        FinishedListing(r) =>
            /\ req[r].resp.kind = "returned"
            /\ Len(req[r].resp.holdings) = Len(req[r].holdings)
            /\ \A i \in 1..Len(req[r].holdings) :
                LET holding == req[r].holdings[i]
                    entry == req[r].resp.holdings[i]
                    quote == req[r].quotes[i]
                IN  IF QuoteFailed(quote)
                    THEN /\ entry.current_price = holding.purchase_price
                         /\ entry.gain_loss = 0
                    ELSE /\ entry.current_price = quote.price
                         /\ entry.total_value = quote.price * holding.shares
                         /\ entry.gain_loss =
                              (quote.price - holding.purchase_price)
                                  * holding.shares

\* C2: when the provider has no profile for the symbol of an add-holding
\* request, the request ends with 404 Not Found and the table of holdings
\* is what it was when the request arrived.
C2_UnresolvedSymbolNotFound ==
    [][\A r \in Reqs :
        /\ Calls(r, "add") => holdings' = holdings
        /\ (req[r].pc = "add_profile" /\ req'[r].profile.kind = "empty") =>
                /\ req'[r].pc = "done"
                /\ NotFound(req'[r].resp)
                /\ holdings' = holdings]_vars

C2_Witness ==
    \E r \in Reqs :
        /\ req[r].op = "add" /\ req[r].pc = "done"
        /\ req[r].profile.kind = "empty"
        /\ NotFound(req[r].resp)
        /\ holdings # {}

\* C3: an add-holding request that fails because a provider call of that
\* request failed has persisted no holding.
C3_UnavailableAddPersistsNothing ==
    \A r \in Reqs :
        (/\ req[r].op = "add" /\ req[r].pc = "done"
         /\ req[r].resp = Uncaught("HTTPStatusError")) =>
            /\ req[r].holding = NoHolding
            /\ ~ \E h \in holdings : h.id = req[r].holding.id

\* C4: an update of a holding the caller owns to a share count <= 0 is
\* refused as an invalid argument, and the table of holdings is what it was
\* (the holding keeps its share count and is not deleted).
C4_NonPositiveUpdateRejected ==
    [][\A r \in Reqs :
        (/\ Calls(r, "update")
         /\ req'[r].shares <= 0
         /\ \E h \in holdings : /\ h.id = req'[r].holding_id
                                /\ h.user_id = req'[r].user) =>
            /\ req'[r].pc = "done"
            /\ req'[r].resp.kind = "raised"
            /\ req'[r].resp.status \in InvalidArgument
            /\ holdings' = holdings]_vars

C4_Witness ==
    \E r \in Reqs :
        /\ req[r].op = "update" /\ req[r].pc = "done"
        /\ req[r].shares <= 0
        /\ req[r].resp.status \in InvalidArgument
        /\ \E h \in holdings : /\ h.id = req[r].holding_id
                               /\ h.user_id = req[r].user
                               /\ h.shares > 0

\* C5: a removal asked by a user who does not own the holding ends with 404
\* Not Found; the holding is still in the table, unchanged, and is among the
\* holdings listed for its owner.
C5_NonOwnerRemoveNotFound ==
    [][\A r \in Reqs :
        Calls(r, "remove") =>
            \A h \in holdings :
                (h.id = req'[r].holding_id /\ h.user_id # req'[r].user) =>
                    /\ req'[r].pc = "done"
                    /\ NotFound(req'[r].resp)
                    /\ holdings' = holdings
                    /\ LET listed == HoldingsOf(holdings', h.user_id)
                       IN  \E i \in 1..Len(listed) : listed[i] = h]_vars

C5_Witness ==
    \E r \in Reqs :
        /\ req[r].op = "remove" /\ req[r].pc = "done"
        /\ NotFound(req[r].resp)
        /\ \E h \in holdings : /\ h.id = req[r].holding_id
                               /\ h.user_id # req[r].user

\* C6: every holding in the table has shares > 0 and purchase_price > 0,
\* whatever requests the API has served.
C6_HoldingsPositive ==
    \A h \in holdings : h.shares > 0 /\ h.purchase_price > 0

C6_Witness ==
    /\ \E r \in Reqs : /\ req[r].op = "update" /\ req[r].pc = "done"
                       /\ req[r].resp.kind = "returned"
    /\ \E h, g \in holdings : h.shares # g.shares

\* C7: add_holding called directly with shares <= 0 or purchase_price <= 0,
\* for a symbol the provider resolves, raises an invalid-argument error and
\* persists no holding.
C7_LedgerRejectsInvalidCreate ==
    \A r \in Reqs :
        (/\ req[r].op = "add" /\ req[r].via = "ledger"
         /\ ~(req[r].shares > 0 /\ req[r].purchase_price > 0)
         /\ HasRecord(req[r].profile)) =>
            /\ req[r].resp.kind = "raised"
            /\ req[r].resp.status \in InvalidArgument
            /\ req[r].holding = NoHolding

\* C8: no step changes anything of a stored holding but its share count,
\* and the step that commits an update keeps every other holding as it was
\* and neither adds nor deletes a row.
C8_UpdateChangesOnlyShares ==
    [][/\ \A h \in holdings : \A g \in holdings' :
            g.id = h.id =>
                /\ g.id = h.id
                /\ g.user_id = h.user_id
                /\ g.symbol = h.symbol
                /\ g.purchase_price = h.purchase_price
                /\ g.company_name = h.company_name
                /\ g.purchased_at = h.purchased_at
       /\ \A r \in Reqs :
            (/\ req[r].pc = "update_commit"
             /\ req'[r].pc # "update_commit"
             /\ req'[r].resp.kind # "raised") =>
                /\ {g.id : g \in holdings'} = {h.id : h \in holdings}
                /\ \A h \in holdings :
                      h.id # req[r].holding.id => h \in holdings']_vars

C8_Witness ==
    \E r \in Reqs :
        /\ req[r].op = "update" /\ req[r].pc = "update_quote"
        /\ req[r].holding \in holdings
        /\ req[r].holding.symbol = "AAPL" /\ req[r].holding.shares = 5
        /\ \E h \in holdings : h.id # req[r].holding.id

\* the sum of term[i] for i in 1..n
SumTo(n, term) ==
    LET partial[i \in 0..n] ==
            IF i = 0 THEN 0 ELSE partial[i - 1] + term[i]
    IN  partial[n]

FinishedSummary(r) ==
    /\ req[r].op = "summary" /\ req[r].pc = "done"
    /\ req[r].resp.kind = "returned"

\* C9: a summary returned for holdings h1..hn, valued at the current prices
\* of its entries, has total_invested = sum of purchase_price * shares,
\* current_value = sum of current_price * shares, total_gain_loss =
\* current_value - total_invested and total_gain_loss_percent =
\* total_gain_loss / total_invested * 100 if total_invested > 0, else 0.  A
\* summary of no holding always returns, with the four values 0; the summary
\* of 10@100 quoted 120 and 5@50 quoted 40 is 1250, 1400, 150 and 12.
C9_SummaryFormulas ==
    \A r \in Reqs :
        /\ FinishedSummary(r) =>
            LET rows == req[r].holdings
                entries == req[r].resp.holdings
                totals == req[r].resp.totals
                n == Len(rows)
                invested ==
                    SumTo(n, [i \in 1..n |->
                                 rows[i].purchase_price * rows[i].shares])
                value ==
                    SumTo(n, [i \in 1..n |->
                                 entries[i].current_price * rows[i].shares])
                percent == totals.total_gain_loss_percent
            IN  /\ Len(entries) = n
                /\ totals.total_invested = invested
                /\ totals.current_value = value
                /\ totals.total_gain_loss = value - invested
                /\ percent.den > 0
                /\ IF invested > 0
                   THEN percent.num * invested
                            = (value - invested) * 100 * percent.den
                   ELSE percent.num = 0
                /\ n = 0 => /\ totals.total_invested = 0
                            /\ totals.current_value = 0
                            /\ totals.total_gain_loss = 0
                            /\ percent.num = 0
                /\ (/\ n = 2
                    /\ rows[1].shares = 10 /\ rows[1].purchase_price = 100
                    /\ entries[1].current_price = 120
                    /\ rows[2].shares = 5 /\ rows[2].purchase_price = 50
                    /\ entries[2].current_price = 40) =>
                        /\ totals.total_invested = 1250
                        /\ totals.current_value = 1400
                        /\ totals.total_gain_loss = 150
                        /\ percent = [num |-> 12, den |-> 1]
        /\ (req[r].op = "summary" /\ req[r].pc = "done"
            /\ req[r].holdings = <<>>) => req[r].resp.kind = "returned"

C9_Witness ==
    \E r \in Reqs :
        /\ FinishedSummary(r)
        /\ Len(req[r].holdings) = 2
        /\ req[r].resp.totals.total_invested = 1250
        /\ req[r].resp.totals.current_value = 1400
        /\ req[r].resp.totals.total_gain_loss_percent = [num |-> 12, den |-> 1]

\* C10: in a summary returned, current_value is the sum of total_value and
\* total_gain_loss the sum of gain_loss over the entries of that response,
\* each entry is valued from the one answer the provider gave for it, and
\* the provider was asked once per holding.
C10_SummaryConsistentWithEntries ==
    \A r \in Reqs :
        FinishedSummary(r) =>
            LET entries == req[r].resp.holdings
                totals == req[r].resp.totals
                quotes == req[r].quotes
                n == Len(entries)
            IN  /\ Len(quotes) = Len(req[r].holdings)
                /\ n = Len(req[r].holdings)
                /\ \A i \in 1..n :
                      /\ entries[i].id = req[r].holdings[i].id
                      /\ entries[i].current_price =
                            IF QuoteFailed(quotes[i])
                            THEN entries[i].purchase_price
                            ELSE quotes[i].price
                /\ totals.current_value =
                      SumTo(n, [i \in 1..n |-> entries[i].total_value])
                /\ totals.total_gain_loss =
                      SumTo(n, [i \in 1..n |-> entries[i].gain_loss])

C10_Witness ==
    \E r \in Reqs :
        /\ FinishedSummary(r)
        /\ Len(req[r].resp.holdings) = 2
        /\ req[r].quotes[1] # req[r].quotes[2]
        /\ req[r].resp.holdings[1].symbol = req[r].resp.holdings[2].symbol
        /\ req[r].resp.totals.total_gain_loss # 0

\* this step is request r's add_holding committing its row
AddCommits(r) ==
    req[r].pc = "add_profile" /\ req'[r].pc \in {"add_quote", "done"}
        /\ req'[r].holding # NoHolding

\* C11: every add_holding that succeeds with shares > 0 and
\* purchase_price > 0 adds exactly one row: its id is the id of no row of
\* the table, it belongs to the caller and carries the shares and the
\* purchase price given; every row there was stays as it was, a row of the
\* same user and ticker included; the caller's listing then holds the new
\* row exactly once, and the caller's total_invested grows by
\* purchase_price * shares.
C11_AddCreatesOneFreshRow ==
    [][\A r \in Reqs :
          (AddCommits(r) /\ req[r].shares > 0 /\ req[r].purchase_price > 0) =>
              LET new == req'[r].holding
                  user == req[r].user
              IN  /\ new \notin holdings
                  /\ holdings' = holdings \cup {new}
                  /\ \A h \in holdings : h.id # new.id
                  /\ new.user_id = user
                  /\ new.symbol = Upper(req[r].symbol)
                  /\ new.shares = req[r].shares
                  /\ new.purchase_price = req[r].purchase_price
                  /\ Len(SelectSeq(HoldingsOf(holdings', user),
                                   LAMBDA h : h.id = new.id)) = 1
                  /\ Len(HoldingsOf(holdings', user))
                        = Len(HoldingsOf(holdings, user)) + 1
                  /\ SumInvested(HoldingsOf(holdings', user))
                        = SumInvested(HoldingsOf(holdings, user))
                            + req[r].purchase_price * req[r].shares]_vars

\* a user who held a ticker has added it again: two rows, nothing merged
C11_Witness ==
    \E r \in Reqs : \E h \in holdings :
        /\ req[r].op = "add" /\ req[r].pc = "done"
        /\ req[r].resp.kind = "returned"
        /\ req[r].holding \in holdings
        /\ h.id < req[r].holding.id
        /\ h.user_id = req[r].holding.user_id
        /\ h.symbol = req[r].holding.symbol
        /\ Len(HoldingsOf(holdings, req[r].user)) = 2

\* the caller of request r got an error: an HTTP error status or an
\* exception
ReturnedError(r) == req[r].pc = "done" /\ req[r].resp.kind = "raised"

\* C12: ListHoldings and GetSummary never write, and an AddHolding,
\* UpdateShares or RemoveHolding call that has returned an error has
\* created, modified or deleted no holding.
C12_ErrorsAndReadsWriteNothing ==
    \A r \in Reqs :
        /\ req[r].op \in {"list", "summary"} => ~req[r].wrote
        /\ ReturnedError(r) => ~req[r].wrote

\* the elements of a sequence
Range(seq) == {seq[i] : i \in 1..Len(seq)}

\* the rows of the table that user owns
OwnedBy(user) == {h \in holdings : h.user_id = user}

\* C13: holdings are isolated per user.  A listing or summary of user u
\* reads exactly the rows whose owner is u, and returns one entry for each
\* of them and no other; and every row a step adds, changes or removes is
\* owned by the user of a request taking that step, so that no request of
\* a user touches a row of another, whatever runs at the same time.
C13_HoldingsIsolatedPerUser ==
    [][/\ \A r \in Reqs :
            (Calls(r, "list") \/ Calls(r, "summary")) =>
                Range(req'[r].holdings) = OwnedBy(req'[r].user)
       /\ \A r \in Reqs :
            (req'[r].pc = "done" /\ req'[r].op \in {"list", "summary"}
                /\ req'[r].resp.kind = "returned") =>
                /\ Len(req'[r].resp.holdings) = Len(req'[r].holdings)
                /\ \A i \in 1..Len(req'[r].holdings) :
                      /\ req'[r].resp.holdings[i].id = req'[r].holdings[i].id
                      /\ req'[r].holdings[i].user_id = req'[r].user
       /\ \A h \in (holdings \ holdings') \cup (holdings' \ holdings) :
            \E r \in Reqs : req'[r] # req[r] /\ req[r].user = h.user_id]_vars

\* two users have listed at once: the owner of the one row got it, the
\* other user got nothing
C13_Witness ==
    \E r, q \in Reqs :
        /\ FinishedListing(r) /\ FinishedListing(q)
        /\ req[r].user # req[q].user
        /\ req[r].resp.kind = "returned" /\ req[q].resp.kind = "returned"
        /\ Len(req[r].resp.holdings) = 1 /\ req[q].resp.holdings = <<>>
        /\ OwnedBy(req[r].user) # {} /\ OwnedBy(req[q].user) = {}

\* the table has no row with this id that belongs to user: the id is the
\* id of no row, or of a row of another owner
NotOwned(holding_id, user) ==
    ~\E h \in holdings : h.id = holding_id /\ h.user_id = user

\* C14: remove_holding and update_holding answer a call on an id the caller
\* does not own with one and the same outcome, 404 "Holding not found",
\* and write nothing, whether no row has the id or a row of another owner
\* has it, and whatever the new share count is (values <= 0 included).
C14_ForeignIdLooksAbsent ==
    [][\A r \in Reqs :
          ((Calls(r, "remove") \/ Calls(r, "update"))
              /\ NotOwned(req'[r].holding_id, req'[r].user)) =>
              /\ req'[r].pc = "done"
              /\ req'[r].resp = Raised(HTTP_404_NOT_FOUND, "Holding not found")
              /\ holdings' = holdings]_vars

\* an update to a share count <= 0 on another owner's holding was answered
\* NotFound
C14_Witness ==
    \E r \in Reqs : \E h \in holdings :
        /\ req[r].op = "update" /\ req[r].pc = "done"
        /\ req[r].shares <= 0
        /\ h.id = req[r].holding_id /\ h.user_id # req[r].user
        /\ NotFound(req[r].resp)

\* this step is request r's update_holding leaving its commit
UpdateCommits(r) ==
    req[r].pc = "update_commit" /\ req'[r].pc # "update_commit"

\* C15: concurrent update_holding calls on one holding resolve as
\* last-write-wins.  Every commit of an update on a holding the table
\* still has succeeds and leaves the row with the share count that
\* request asked for and its other fields as they were; so the request
\* that commits last decides the stored share count.
C15_LastWriteWins ==
    [][\A r \in Reqs :
          (UpdateCommits(r)
              /\ \E h \in holdings : h.id = req[r].holding.id) =>
              /\ req'[r].resp.kind # "raised"
              /\ \E h \in holdings :
                    /\ h.id = req[r].holding.id
                    /\ [h EXCEPT !.shares = req[r].shares] \in holdings']_vars

\* the four figures of a valuation
Figures(entry) ==
    <<entry.current_price, entry.total_value, entry.gain_loss,
      entry.gain_loss_percent>>

\* C16: for the same shares, purchase price and quote answer (a price, no
\* quote, or a quote without a price) the add route, the update route and
\* get_holdings compute the same current_price, total_value, gain_loss and
\* gain_loss_percent, and gain_loss_percent is 0 when invested is not > 0.
C16_ValuationSameAtAllCallSites ==
    \A r \in Reqs :
        req[r].op = "valuation" =>
            LET added == req[r].result[1]
                updated == req[r].result[2]
                listed == req[r].result[3]
                invested == req[r].holding.purchase_price * req[r].holding.shares
            IN  /\ Figures(added) = Figures(listed)
                /\ Figures(updated) = Figures(listed)
                /\ listed.total_value
                      = listed.current_price * req[r].holding.shares
                /\ listed.gain_loss = listed.total_value - invested
                /\ ~(invested > 0) => listed.gain_loss_percent = Zero

\* valued side by side: a holding with invested <= 0 at a quoted price,
\* and a holding with invested > 0 whose quote had no price
C16_Witness ==
    \E r, q \in Reqs :
        /\ req[r].op = "valuation" /\ req[q].op = "valuation"
        /\ req[r].holding.shares < 0 /\ req[r].holding.purchase_price > 0
        /\ req[r].quotes[1].kind = "dict"
        /\ req[r].result[1].gain_loss # 0
        /\ req[r].result[1].gain_loss_percent = Zero
        /\ req[q].holding.shares > 0 /\ req[q].holding.purchase_price > 0
        /\ req[q].quotes[1].kind = "nokey"
        /\ req[q].result[1].current_price = req[q].holding.purchase_price

\* C17: the purchase-price fallback belongs to the listing and summary
\* only: an add-holding request never returns a success whose
\* current_price is the purchase price put in place of a quote the
\* provider did not give.
C17_AddNeverFallsBack ==
    \A r \in Reqs :
        (req[r].op = "add" /\ req[r].via = "api" /\ req[r].pc = "done"
            /\ req[r].resp.kind = "returned") =>
            ~(/\ QuoteFailed(req[r].quotes[1])
              /\ req[r].resp.holdings[1].current_price
                    = req[r].holding.purchase_price)

\* the ids of the holdings that were removed: given to a row once, and the
\* id of no row now
RemovedIds == {id \in 1..(nextId - 1) : \A h \in holdings : h.id # id}

\* C18: a removed holding is never resurrected.  Once its removal has
\* committed, no step puts a row with its id back, an update that looked
\* the holding up before the removal included; every listing or summary
\* called from then on reads and returns no entry for it; and every
\* remove_holding or update_holding called on its id from then on
\* returns NotFound.
C18_RemovedStaysRemoved ==
    [][\A id \in RemovedIds :
          /\ \A h \in holdings' : h.id # id
          /\ \A r \in Reqs :
                (Calls(r, "list") \/ Calls(r, "summary")) =>
                    /\ \A h \in Range(req'[r].holdings) : h.id # id
                    /\ \A e \in Range(req'[r].resp.holdings) : e.id # id
          /\ \A r \in Reqs :
                (req[r].pc = "list_quote"
                    /\ \A h \in Range(req[r].holdings) : h.id # id) =>
                    \A e \in Range(req'[r].resp.holdings) : e.id # id
          /\ \A r \in Reqs :
                ((Calls(r, "remove") \/ Calls(r, "update"))
                    /\ req'[r].holding_id = id) =>
                    req'[r].pc = "done" /\ NotFound(req'[r].resp)]_vars

\* an update looked the holding up, the removal committed, and the update's
\* own commit then found no row: the holding stayed removed
C18_Witness ==
    \E r, q \in Reqs :
        /\ req[r].op = "update" /\ req[r].pc = "done"
        /\ req[r].resp.detail = "StaleDataError"
        /\ req[q].op = "remove" /\ req[q].pc = "done" /\ req[q].wrote
        /\ req[q].holding.id = req[r].holding.id
        /\ req[r].holding.id \in RemovedIds

====
